---- MODULE Spec2Model ----
(***************************************************************************)
(* Model of s2e_env/commands/code_coverage/lcov.py: the LineCoverage       *)
(* command.  handle() aggregates translation-block ranges into addr_counts,*)
(* asks line_info for the per-file line counts, writes coverage.info in    *)
(* the lcov format and optionally runs genhtml on it.                      *)
(***************************************************************************)
EXTENDS Bags, FiniteSets, Integers, Sequences, TLC

(* ------------------------------ bounds --------------------------------- *)
\* addresses of the target are 0 .. MaxAddr
MaxAddr == 2
\* the third field of a translation-block record is 0 .. MaxHit
MaxHit == 2
\* trace files returned by get_tb_files
MaxTbFiles == 2
\* translation-block records read in one run, over all trace files
MaxRanges == 2
\* line numbers of a source file are 1 .. MaxLine
MaxLine == 2
\* source files in the dictionary returned by line_info
MaxSrcFiles == 2
\* (line, count) pairs in the dictionary returned by line_info, over all
\* its source files
MaxPairs == 3

(* ------------------------------ inputs --------------------------------- *)
Addrs == 0 .. MaxAddr

\* the records parse_tb_file can yield: (start_addr, end_addr, third field)
TbRecords ==
    { r \in [start_addr : Addrs, end_addr : Addrs, hit_count : 0 .. MaxHit] :
        r.start_addr <= r.end_addr }

\* a single record, for the runs that explore the serializer
OneTbRecord == { [start_addr |-> 0, end_addr |-> 1, hit_count |-> 1] }

\* source paths named by the debug information
RelativePaths == { "src/a.c" }
AbsolutePaths == { "/ws/b.c" }
WindowsPaths == { "C:\\src\\w.c" }
SrcPaths == RelativePaths \cup AbsolutePaths \cup WindowsPaths

\* a dictionary is modelled as the sequence of its (key, value) pairs in
\* the order keys() / items() iterate over it
DistinctKeys(s) == \A i, j \in 1 .. Len(s) : s[i][1] = s[j][1] => i = j

\* execution counts reported by line_info: never executed, executed twice
Counts == { 0, 2 }

\* the per-file dictionaries {line: count}
LineTables ==
    { s \in UNION { [1 .. n -> (1 .. MaxLine) \X Counts] : n \in 0 .. MaxLine } :
        DistinctKeys(s) }

\* the dictionaries over the given paths with at most files keys and at
\* most pairs (line, count) pairs
RECURSIVE InfosOver(_, _, _)
InfosOver(paths, files, pairs) ==
    IF files = 0 THEN { << >> }
    ELSE { << >> } \cup
         UNION { { << << p, t >> >> \o rest :
                     rest \in InfosOver(paths \ {p}, files - 1, pairs - Len(t)) } :
                 p \in paths, t \in { u \in LineTables : Len(u) <= pairs } }

\* the dictionaries line_info.get_file_line_coverage can return
FileLineInfos == InfosOver(SrcPaths, MaxSrcFiles, MaxPairs)

\* one of them, for the runs that explore the aggregation
SmallFileLineInfos ==
    { << << "src/a.c", << <<1, 2>>, <<2, 0>> >> >>, << "/ws/b.c", << <<1, 2>> >> >> >> }

\* the regular files that may exist on disk
DiskFiles == { "/ws/src/a.c", "/ws/b.c" }

VARIABLES
    pc,              \* position of handle()
    html,            \* options['html']
    tb_files_left,   \* trace files get_tb_files returned and not yet parsed
    tb_left,         \* records of the current trace file not yet consumed
    tb,              \* the record bound by the inner for statement
    seen,            \* bag of all records consumed so far (history)
    addr_counts,     \* the dictionary built by _get_addr_coverage
    mapper_calls,    \* calls of line_info.get_file_line_coverage
    file_line_info,  \* its result
    fs,              \* regular files present on disk
    opens,           \* calls of open(lcov_path, 'w')
    f_open,          \* the file object f is open
    coverage_info,   \* lines of coverage.info
    idx,             \* position of the for loop over file_line_info.keys()
    num_non_zero_lines,
    num_instrumented_lines,
    genhtml_calls,   \* invocations of genhtml
    error            \* the exception that ended handle(), "" if none

vars == << pc, html, tb_files_left, tb_left, tb, seen, addr_counts,
           mapper_calls, file_line_info, fs, opens, f_open, coverage_info,
           idx, num_non_zero_lines, num_instrumented_lines,
           genhtml_calls, error >>

aggVars == << tb_files_left, tb_left, tb, seen, addr_counts >>
saveVars == << opens, f_open, coverage_info, idx,
               num_non_zero_lines, num_instrumented_lines >>

NoTb == [start_addr |-> 0, end_addr |-> 0, hit_count |-> 0]

(* --------------------------- _get_addr_coverage ------------------------ *)
\* xrange(start_addr, end_addr)
XRangeClosedEnd(start_addr, end_addr) == start_addr .. end_addr
XRangeNonEmpty(start_addr, end_addr) ==
    IF start_addr < end_addr THEN start_addr .. (end_addr - 1) ELSE { start_addr }
XRange(start_addr, end_addr) == start_addr .. (end_addr - 1)

\* addr_counts.get(addr, 0)
Get(d, addr) == IF addr \in DOMAIN d THEN d[addr] ELSE 0

\* the right-hand side of line 97: addr_counts.get(addr, 0) + 1
BumpedToOne(d, addr) == 1
NotBumped(d, addr) == Get(d, addr)
Bumped(d, addr) == Get(d, addr) + 1

\* lines 96-97 for one record r
AddRange(d, r) ==
    LET covered == XRange(r.start_addr, r.end_addr)
    IN  [ a \in (DOMAIN d) \cup covered |->
            IF a \in covered THEN Bumped(d, a) ELSE d[a] ]

\* "not addr_counts"
NeverFalsy(d) == FALSE
Falsy(d) == DOMAIN d = {}

\* tb_coverage_files = get_tb_files(...); addr_counts = {}
GetTbFiles(FileCounts) ==
    /\ pc = "start"
    /\ \E n \in FileCounts : tb_files_left' = n
    /\ addr_counts' = << >>
    /\ pc' = "files"
    /\ UNCHANGED << html, tb_left, tb, seen, mapper_calls, file_line_info, fs,
                    saveVars, genhtml_calls, error >>

\* one iteration of the outer for: parse_tb_file and the "continue" test;
\* n is the number of records the file holds for the target
ParseTbFile(RecordCounts) ==
    /\ pc = "files"
    /\ tb_files_left > 0
    /\ \E n \in RecordCounts \cap (0 .. (MaxRanges - BagCardinality(seen))) :
          /\ tb_left' = n
          /\ pc' = IF n = 0 THEN "files" ELSE "ranges"
    /\ tb_files_left' = tb_files_left - 1
    /\ UNCHANGED << html, tb, seen, addr_counts, mapper_calls, file_line_info,
                    fs, saveVars, genhtml_calls, error >>

\* one iteration of the inner for over tb_coverage_data
ProcessRange(Records) ==
    /\ pc = "ranges"
    /\ \E r \in Records :
          /\ tb' = r
          /\ seen' = seen (+) SetToBag({r})
          /\ addr_counts' = AddRange(addr_counts, r)
    /\ tb_left' = tb_left - 1
    /\ pc' = IF tb_left = 1 THEN "files" ELSE "ranges"
    /\ UNCHANGED << html, tb_files_left, mapper_calls, file_line_info, fs,
                    saveVars, genhtml_calls, error >>

(* ---------------------------------- handle ------------------------------ *)
\* return addr_counts; if not addr_counts: raise CommandError(...)
CheckAddrCounts ==
    /\ pc = "files"
    /\ tb_files_left = 0
    /\ IF Falsy(addr_counts)
         THEN /\ pc' = "raised"
              /\ error' = "CommandError: No translation block information found"
         ELSE /\ pc' = "line_info"
              /\ error' = error
    /\ UNCHANGED << html, aggVars, mapper_calls, file_line_info, fs, saveVars,
                    genhtml_calls >>

\* file_line_info = line_info.get_file_line_coverage(target_path, addr_counts)
GetFileLineCoverage(Infos) ==
    /\ pc = "line_info"
    /\ \E t \in Infos : file_line_info' = t
    /\ mapper_calls' = mapper_calls + 1
    /\ pc' = "save"
    /\ UNCHANGED << html, aggVars, fs, saveVars, genhtml_calls, error >>

(* --------------------------- _save_coverage_info ------------------------ *)
\* '\\' in src_file
NoBackslash(src_file) == FALSE
HasBackslash(src_file) == src_file \in WindowsPaths

\* os.path.realpath(src_file), the working directory being /ws; the paths
\* of the model hold no symbolic link, "." or ".." component
Realpath(src_file) ==
    IF src_file \in AbsolutePaths THEN src_file ELSE "/ws/" \o src_file

\* os.path.isfile(abs_src_path)
AlwaysFile(abs_src_path, disk) == TRUE
IsFile(abs_src_path, disk) == abs_src_path \in disk

\* lines 124-127: the path written after SF:
AbsSrcPath(src_file) ==
    IF HasBackslash(src_file) THEN src_file ELSE Realpath(src_file)

\* lines 124-134: the iteration reaches "continue"
Skipped(src_file, disk) ==
    /\ ~ HasBackslash(src_file)
    /\ ~ IsFile(Realpath(src_file), disk)

\* the "%d" conversion
Dec(n) == ToString(n)

\* f.write('TN:\n')
NoHeader == << >>
Header == << "TN:" >>

\* lines 136-137: the value a counter has when the inner loop starts;
\* prev is the value it had before
CarriedOver(prev) == prev
CounterStart(prev) == 0

\* line 143-144: the increment of num_non_zero_lines for one count
HitAlways(count) == 1
HitIncrement(count) == IF count # 0 THEN 1 ELSE 0

\* lines 140-145: the loop over file_line_info[src_file].items(), started
\* with the counters nz and ni; the result holds the DA lines written and
\* the final counters
RECURSIVE WriteLines(_, _, _, _)
WriteLines(items, i, nz, ni) ==
    IF i > Len(items)
    THEN [ lines |-> << >>, nz |-> nz, ni |-> ni ]
    ELSE LET rest == WriteLines(items, i + 1,
                                nz + HitIncrement(items[i][2]), ni + 1)
         IN  [ lines |-> << "DA:" \o Dec(items[i][1]) \o "," \o Dec(items[i][2]) >>
                           \o rest.lines,
               nz |-> rest.nz, ni |-> rest.ni ]

\* with open(lcov_path, 'w') as f: f.write('TN:\n')
OpenLcov ==
    /\ pc = "save"
    /\ opens' = opens + 1
    /\ f_open' = TRUE
    /\ coverage_info' = Header
    /\ idx' = 1
    /\ pc' = "write"
    /\ UNCHANGED << html, aggVars, mapper_calls, file_line_info, fs,
                    num_non_zero_lines, num_instrumented_lines,
                    genhtml_calls, error >>

\* open(lcov_path, 'w') raises IOError
OpenLcovFails ==
    /\ pc = "save"
    /\ opens' = opens + 1
    /\ pc' = "raised"
    /\ error' = "IOError"
    /\ UNCHANGED << html, aggVars, mapper_calls, file_line_info, fs, f_open,
                    coverage_info, idx, num_non_zero_lines,
                    num_instrumented_lines, genhtml_calls >>

\* one iteration of the for loop over file_line_info.keys() that skips
\* the file
SkipSrcFile ==
    /\ pc = "write"
    /\ idx <= Len(file_line_info)
    /\ Skipped(file_line_info[idx][1], fs)
    /\ idx' = idx + 1
    /\ UNCHANGED << pc, html, aggVars, mapper_calls, file_line_info, fs, opens,
                    f_open, coverage_info, num_non_zero_lines,
                    num_instrumented_lines, genhtml_calls, error >>

\* one iteration of the for loop over file_line_info.keys() that writes
\* the record of the file
WriteSrcFile ==
    /\ pc = "write"
    /\ idx <= Len(file_line_info)
    /\ ~ Skipped(file_line_info[idx][1], fs)
    /\ LET src_file == file_line_info[idx][1]
           w == WriteLines(file_line_info[idx][2], 1,
                           CounterStart(num_non_zero_lines),
                           CounterStart(num_instrumented_lines))
       IN  /\ coverage_info' =
                 coverage_info
                   \o << "SF:" \o AbsSrcPath(src_file) >>
                   \o w.lines
                   \o << "LH:" \o Dec(w.nz), "LF:" \o Dec(w.ni), "end_of_record" >>
           /\ num_non_zero_lines' = w.nz
           /\ num_instrumented_lines' = w.ni
    /\ idx' = idx + 1
    /\ UNCHANGED << pc, html, aggVars, mapper_calls, file_line_info, fs, opens,
                    f_open, genhtml_calls, error >>

\* options.get('html', False)
HtmlAlways(option) == TRUE
HtmlWanted(option) == option

\* the with block ends, _save_coverage_info returns, handle tests the option
CloseLcov ==
    /\ pc = "write"
    /\ idx > Len(file_line_info)
    /\ f_open' = FALSE
    /\ pc' = IF HtmlWanted(html) THEN "genhtml" ELSE "returned"
    /\ UNCHANGED << html, aggVars, mapper_calls, file_line_info, fs, opens,
                    coverage_info, idx, num_non_zero_lines,
                    num_instrumented_lines, genhtml_calls, error >>

(* -------------------------------- _gen_html ----------------------------- *)
\* genhtml exits with status 0
GenHtml ==
    /\ pc = "genhtml"
    /\ genhtml_calls' = genhtml_calls + 1
    /\ pc' = "returned"
    /\ UNCHANGED << html, aggVars, mapper_calls, file_line_info, fs, saveVars,
                    error >>

\* genhtml exits with a non-zero status: ErrorReturnCode becomes CommandError
GenHtmlFails ==
    /\ pc = "genhtml"
    /\ genhtml_calls' = genhtml_calls + 1
    /\ pc' = "raised"
    /\ error' = "CommandError: ErrorReturnCode"
    /\ UNCHANGED << html, aggVars, mapper_calls, file_line_info, fs, saveVars >>

(* ----------------------------- specifications --------------------------- *)
InitWith(Disks) ==
    /\ pc = "start"
    /\ html \in BOOLEAN
    /\ tb_files_left = 0
    /\ tb_left = 0
    /\ tb = NoTb
    /\ seen = EmptyBag
    /\ addr_counts = << >>
    /\ mapper_calls = 0
    /\ file_line_info = << >>
    /\ fs \in Disks
    /\ opens = 0
    /\ f_open = FALSE
    /\ coverage_info = << >>
    /\ idx = 0
    /\ num_non_zero_lines = 0
    /\ num_instrumented_lines = 0
    /\ genhtml_calls = 0
    /\ error = ""

NextWith(FileCounts, RecordCounts, Records, Infos) ==
    \/ GetTbFiles(FileCounts)
    \/ ParseTbFile(RecordCounts)
    \/ ProcessRange(Records)
    \/ CheckAddrCounts
    \/ GetFileLineCoverage(Infos)
    \/ OpenLcov
    \/ OpenLcovFails
    \/ SkipSrcFile
    \/ WriteSrcFile
    \/ CloseLcov
    \/ GenHtml
    \/ GenHtmlFails

\* every trace input, one line table and one disk
Init == InitWith({ { "/ws/src/a.c" } })
Next == NextWith(0 .. MaxTbFiles, 0 .. MaxRanges, TbRecords, SmallFileLineInfos)
Spec == Init /\ [][Next]_vars

\* one trace file with one record, every line table and every disk
InitSave == InitWith(SUBSET DiskFiles)
NextSave == NextWith({ 1 }, { 1 }, OneTbRecord, FileLineInfos)
SpecSave == InitSave /\ [][NextSave]_vars

TypeOK ==
    /\ pc \in { "start", "files", "ranges", "line_info", "save", "write",
                "genhtml", "returned", "raised" }
    /\ BagCardinality(seen) <= MaxRanges
    /\ \A a \in DOMAIN addr_counts : addr_counts[a] \in Nat

(* ------------------------- properties: aggregation ---------------------- *)
NoTbInfo == "CommandError: No translation block information found"

\* r covers address a in the half-open sense
Covers(r, a) == r.start_addr <= a /\ a < r.end_addr

\* the sum, over the records of S that cover a, of their multiplicity in
\* seen times their third field (weighted) or times one
RECURSIVE CoverSum(_, _, _)
CoverSum(S, a, weighted) ==
    IF S = {} THEN 0
    ELSE LET r == CHOOSE x \in S : TRUE
         IN  (IF Covers(r, a)
                THEN seen[r] * (IF weighted THEN r.hit_count ELSE 1)
                ELSE 0)
             + CoverSum(S \ {r}, a, weighted)

\* the entry of a dictionary at a: whether the key is there, and the value
Entry(d, a) == << a \in DOMAIN d, Get(d, a) >>

C2_HalfOpen ==
    [][ pc = "ranges" /\ tb_left' # tb_left
          => /\ tb'.start_addr < tb'.end_addr
                  => \A a \in 0 .. (MaxAddr + 1) :
                        (Entry(addr_counts', a) # Entry(addr_counts, a))
                           <=> Covers(tb', a)
             /\ \A a \in DOMAIN addr_counts' :
                   \E r \in DOMAIN seen' : Covers(r, a) ]_vars

\* a record not starting at address 0 was consumed: the address below it
\* and its end address are no keys
C2_Witness ==
    /\ tb.start_addr = 1 /\ tb.end_addr = 2
    /\ BagCardinality(seen) = 1
    /\ DOMAIN addr_counts = { 1 }

\* C9: consuming a record with start_addr = end_addr leaves the table as it
\* was and raises nothing; the loop goes on with the next record or file.
C9_DegenerateNoOp ==
    [][ pc = "ranges" /\ tb_left' # tb_left /\ tb'.start_addr = tb'.end_addr
          => /\ addr_counts' = addr_counts
             /\ error' = ""
             /\ pc' = IF tb_left > 1 THEN "ranges" ELSE "files" ]_vars

\* a degenerate record with a non-zero third field was consumed first and
\* a covering record after it
C9_Witness ==
    /\ BagCardinality(seen) = 2
    /\ tb.start_addr < tb.end_addr
    /\ \E r \in DOMAIN seen : r.start_addr = r.end_addr /\ r.hit_count > 0
    /\ DOMAIN addr_counts = XRange(tb.start_addr, tb.end_addr)

\* C10: once handle is past the test of addr_counts, it has raised the
\* "No translation block information found" error exactly when no consumed
\* record has start_addr < end_addr; every key of the table counts >= 1.
C10_NoDataIffNothingCovered ==
    /\ \A a \in DOMAIN addr_counts : addr_counts[a] >= 1
    /\ pc \notin { "start", "files", "ranges" }
         => ( (pc = "raised" /\ error = NoTbInfo)
                <=> ~ \E r \in DOMAIN seen : r.start_addr < r.end_addr )

\* trace files held records, all of them degenerate, and handle failed
C10_Witness ==
    /\ error = NoTbInfo
    /\ BagCardinality(seen) = 2
    /\ tb_files_left = 0
    /\ \E r \in DOMAIN seen : r.hit_count > 0

\* C3: when no record at all was consumed, handle ends with the "No
\* translation block information found" error, and whenever it ends with
\* that error line_info was not called, coverage.info was not opened or
\* written and genhtml was not run.
C3_EmptyInputFails ==
    /\ (pc \notin { "start", "files", "ranges" } /\ seen = EmptyBag)
          => (pc = "raised" /\ error = NoTbInfo)
    /\ error = NoTbInfo
          => /\ pc = "raised"
             /\ mapper_calls = 0
             /\ opens = 0 /\ ~ f_open /\ coverage_info = << >>
             /\ genhtml_calls = 0

\* handle failed on an input without any record
C3_Witness ==
    /\ pc = "raised" /\ error = NoTbInfo
    /\ seen = EmptyBag
    /\ html

(* -------------------------- properties: the report ---------------------- *)
\* the src_file is one the serializer must leave out
Missing(src_file) ==
    /\ src_file \notin WindowsPaths
    /\ (IF src_file \in AbsolutePaths THEN src_file ELSE "/ws/" \o src_file)
          \notin fs

\* the entries of file_line_info the loop has been through and not left out
Kept ==
    LET Keep(e) == ~ Missing(e[1])
    IN  SelectSeq(SubSeq(file_line_info, 1, idx - 1), Keep)

\* the records of a report: the lines after the first, cut after each
\* end_of_record line
RECURSIVE SplitRecords(_, _, _)
SplitRecords(rep, i, cur) ==
    IF i > Len(rep)
    THEN (IF cur = << >> THEN << >> ELSE << cur >>)
    ELSE IF rep[i] = "end_of_record"
         THEN << Append(cur, rep[i]) >> \o SplitRecords(rep, i + 1, << >>)
         ELSE SplitRecords(rep, i + 1, Append(cur, rep[i]))

DALine(item) == "DA:" \o ToString(item[1]) \o "," \o ToString(item[2])
AllDALines == { DALine(item) : item \in (1 .. MaxLine) \X Counts }

\* the number of entries of a line table with a non-zero count
NonZero(items) == Cardinality({ i \in 1 .. Len(items) : items[i][2] # 0 })

\* the file is open or was written and closed
Written == pc = "write" \/ (opens = 1 /\ idx > 0)

\* C4: the k-th record of the report belongs to the k-th file not left out;
\* it holds as many DA lines as the file's line table has entries (N), one
\* for each entry, then LH:H with H the number of non-zero counts, then LF:N.
C4_LineCounts ==
    Written =>
      LET recs == SplitRecords(coverage_info, 2, << >>)
      IN  /\ Len(recs) = Len(Kept)
          /\ \A k \in 1 .. Len(recs) :
                LET rec == recs[k]
                    items == Kept[k][2]
                    N == Len(items)
                    H == NonZero(items)
                IN  /\ Cardinality({ j \in 1 .. Len(rec) : rec[j] \in AllDALines }) = N
                    /\ \A i \in 1 .. N : rec[i + 1] = DALine(items[i])
                    /\ Len(rec) = N + 4
                    /\ rec[N + 2] = "LH:" \o ToString(H)
                    /\ rec[N + 3] = "LF:" \o ToString(N)
                    /\ 0 <= H /\ H <= N

\* a second record with two lines, one of them hit, after a first record
\* that has lines too
C4_Witness ==
    /\ ~ f_open /\ idx = 3
    /\ Len(Kept) = 2
    /\ Len(Kept[1][2]) = 1 /\ NonZero(Kept[1][2]) = 1
    /\ Len(Kept[2][2]) = 2 /\ NonZero(Kept[2][2]) = 1
    /\ num_non_zero_lines = 1 /\ num_instrumented_lines = 2

\* the complete record of an entry of file_line_info
FullRecord(e) ==
    << "SF:" \o (IF e[1] \in WindowsPaths \/ e[1] \in AbsolutePaths
                   THEN e[1] ELSE "/ws/" \o e[1]) >>
      \o [ i \in 1 .. Len(e[2]) |-> DALine(e[2][i]) ]
      \o << "LH:" \o ToString(NonZero(e[2])),
            "LF:" \o ToString(Len(e[2])),
            "end_of_record" >>

RECURSIVE Concat(_)
Concat(ss) == IF ss = << >> THEN << >> ELSE Head(ss) \o Concat(Tail(ss))

\* C5: the report is the header followed by the complete records of the
\* files not left out, in iteration order, so a missing file contributes no
\* line wherever it stands; leaving a file out raises nothing and the
\* serializer returns.
C5_MissingFileSkipped ==
    Written =>
      /\ coverage_info = << "TN:" >> \o Concat([ k \in 1 .. Len(Kept) |-> FullRecord(Kept[k]) ])
      /\ \A i \in 1 .. (idx - 1) :
            Missing(file_line_info[i][1]) =>
               \A j \in 1 .. Len(coverage_info) :
                  coverage_info[j] # "SF:" \o file_line_info[i][1]
                  /\ coverage_info[j] # "SF:/ws/" \o file_line_info[i][1]
      /\ pc = "write" => error = ""
      /\ (idx > Len(file_line_info) /\ ~ f_open)
            => pc \in { "genhtml", "returned" } \/ error = "CommandError: ErrorReturnCode"

\* a missing file came first, an existing one after it, and handle returned
C5_Witness ==
    /\ pc = "returned"
    /\ Len(file_line_info) = 2
    /\ Missing(file_line_info[1][1])
    /\ file_line_info[2][1] \notin WindowsPaths
    /\ ~ Missing(file_line_info[2][1])
    /\ Len(file_line_info[2][2]) = 2
    /\ Len(coverage_info) = 7

\* C6: every path with a back-slash the loop has been through has its SF:
\* line in the report, the path unchanged, whatever files are on disk.
C6_WindowsPathsKept ==
    Written =>
      \A i \in 1 .. (idx - 1) :
         file_line_info[i][1] \in WindowsPaths =>
            \E j \in 1 .. Len(coverage_info) :
               coverage_info[j] = "SF:" \o file_line_info[i][1]

\* with no file on disk, the record of a back-slash path is in the report
\* and the local file before it is not
C6_Witness ==
    /\ pc = "returned"
    /\ fs = {}
    /\ Len(file_line_info) = 2
    /\ file_line_info[1][1] \notin WindowsPaths
    /\ file_line_info[2][1] \in WindowsPaths
    /\ Len(coverage_info) > 1
    /\ coverage_info[2] = "SF:C:\\src\\w.c"

\* C8: a report that was opened starts with TN:, which occurs nowhere else;
\* when the table is empty or all its files are left out the report is that
\* line alone and the serializer returns to handle without an error.
C8_SingleHeader ==
    Written =>
      /\ Len(coverage_info) >= 1
      /\ coverage_info[1] = "TN:"
      /\ \A j \in 2 .. Len(coverage_info) : coverage_info[j] # "TN:"
      /\ (~ f_open /\ \A i \in 1 .. Len(file_line_info) : Missing(file_line_info[i][1]))
            => /\ coverage_info = << "TN:" >>
               /\ pc \in { "genhtml", "returned" } \/ genhtml_calls = 1
               /\ ~ html => (pc = "returned" /\ error = "")

\* every file of a table of two was left out and handle returned
C8_Witness ==
    /\ pc = "returned"
    /\ Len(file_line_info) = 2
    /\ \A i \in 1 .. 2 : Missing(file_line_info[i][1])
    /\ coverage_info = << "TN:" >>

\* C7: genhtml runs only with the html option, once, after the loop is over
\* and coverage.info is closed; running it, and failing, leaves the report
\* as it is, and nothing runs after the failure.
C7_RendererAfterReport ==
    [][ /\ genhtml_calls' # genhtml_calls
          => /\ html
             /\ genhtml_calls = 0 /\ genhtml_calls' = 1
             /\ opens = 1 /\ ~ f_open /\ idx > Len(file_line_info)
             /\ coverage_info' = coverage_info
             /\ pc' = "raised" <=> error' = "CommandError: ErrorReturnCode"
        /\ pc = "raised" => UNCHANGED vars ]_vars

\* genhtml failed on a report that holds a record
C7_Witness ==
    /\ pc = "raised" /\ error = "CommandError: ErrorReturnCode"
    /\ genhtml_calls = 1
    /\ Len(coverage_info) > 4
    /\ coverage_info[Len(coverage_info)] = "end_of_record"
====
